---- MODULE Spec2Model ----
(***************************************************************************)
(* The polygonedge_secrets resource of terraform-provider-polygonedge      *)
(* (src/pkg/secrets/secrets_resource.go).                                  *)
(*                                                                         *)
(* The resource has four handlers.  Create calls three external key        *)
(* generators and three derivation functions one after the other and       *)
(* writes six strings into the Terraform state; Read, Update and Delete    *)
(* have empty bodies (a log line at most).  The plugin framework owns the  *)
(* state between requests: it hands each handler a response whose state is *)
(* the prior state (the null state for Create), stores the response state  *)
(* when the handler returns, and removes the state after a Delete that     *)
(* reported no error.                                                      *)
(*                                                                         *)
(* The key generators, the derivation functions and State.Set belong to    *)
(* other libraries.  Each fallible one either succeeds or returns an       *)
(* error; which of them fail in one Create invocation is chosen freely     *)
(* when the invocation starts (variable faults).  Keys are abstract        *)
(* identities; an encoding or a derivation of a key is a tagged pair that  *)
(* determines the key and the function that produced it.                   *)
(***************************************************************************)
EXTENDS Naturals, Sequences, FiniteSets

\* Number of distinct keys each generator can return.
NumKeys == 2
\* Longest run of consecutive Read requests that is followed.
MaxReads == 2

Keys == 1..NumKeys
\* A nil key pointer.
NilKey == 0
\* A null types.String / unset byte slice.
NullString == <<>>

VARIABLES
    state,      \* the stored record: the six attributes of the Terraform state
    schema,     \* resp.Schema as last returned by Schema (attributes, version)
    pc,         \* "idle", or the position of the running Create
    op,         \* the handler that ran last (or is running)
    faults,     \* the external calls that return an error in this Create
    locals,     \* Create's local variables
    respState,  \* resp.State of the running or last Create
    diags,      \* resp.Diagnostics of the running or last handler
    calls,      \* the external calls made by the running or last handler
    reads,      \* length of the current run of consecutive Reads
    snap,       \* the stored record before the first Read of that run
    plan,       \* request.Plan of the last Update
    deleted     \* a Delete ran and no Create has started since

vars == <<state, schema, pc, op, faults, locals, respState, diags, calls,
          reads, snap, plan, deleted>>

----------------------------------------------------------------------------
(* secretsDataSourceModel and the Terraform state *)

Attrs == {"validator_key_encoded", "validator_bls_key_encoded",
          "network_key_encoded", "address", "bls_pubkey", "node_id"}

\* The state with no resource in it: every attribute null.
NoRecord == [a \in Attrs |-> NullString]

AllSet(s) == \A a \in Attrs : s[a] # NullString
NoneSet(s) == \A a \in Attrs : s[a] = NullString

----------------------------------------------------------------------------
(* Schema *)

ComputedStringAttribute(name, sensitive) ==
    [name |-> name, type |-> "string", computed |-> TRUE, optional |-> FALSE,
     required |-> FALSE, sensitive |-> sensitive]

SchemaDropsNetworkSensitive ==
    [version |-> 1,
     attributes |->
        {ComputedStringAttribute("validator_key_encoded", TRUE),
         ComputedStringAttribute("validator_bls_key_encoded", TRUE),
         ComputedStringAttribute("network_key_encoded", FALSE),
         ComputedStringAttribute("address", FALSE),
         ComputedStringAttribute("bls_pubkey", FALSE),
         ComputedStringAttribute("node_id", FALSE)}]

Schema ==
    [version |-> 1,
     attributes |->
        {ComputedStringAttribute("validator_key_encoded", TRUE),
         ComputedStringAttribute("validator_bls_key_encoded", TRUE),
         ComputedStringAttribute("network_key_encoded", TRUE),
         ComputedStringAttribute("address", FALSE),
         ComputedStringAttribute("bls_pubkey", FALSE),
         ComputedStringAttribute("node_id", FALSE)}]

\* resp.Schema before Schema has been called.
NoSchema == [version |-> 0, attributes |-> {}]

----------------------------------------------------------------------------
(* The external collaborators, as injective functions of the key *)

EncodeECDSA(k) == <<"ecdsa-private-key-encoded", k>>
PublicKey(k) == <<"ecdsa-public-key", k>>
PubKeyToAddress(pub) == <<"address", pub[2]>>
AddressString(addr) == <<"address-hex", addr[2]>>

EncodeBLS(k) == <<"bls-secret-key-encoded", k>>
BLSSecretKeyToPubkeyBytes(k) == <<"bls-pubkey-bytes", k>>

EncodeLibp2p(k) == <<"libp2p-key-encoded", k>>
IDFromPrivateKey(k) == <<"peer-id", k>>
PeerIDString(id) == <<"peer-id-b58", id[2]>>

----------------------------------------------------------------------------
(* Create: control flow and diagnostics *)

\* The external calls Create makes, in the order of its source lines.
Order == <<"GenerateAndEncodeECDSAPrivateKey",
           "GenerateAndEncodeBLSSecretKey",
           "BLSSecretKeyToPubkeyBytes",
           "GenerateAndEncodeLibp2pKey",
           "IDFromPrivateKey",
           "PubKeyToAddress",
           "StateSet">>

\* The five calls whose error Create checks itself.
GenSteps == {Order[i] : i \in 1..5}
\* Every call that can hand Create an error.
FallibleSteps == GenSteps \cup {"StateSet"}

Diag(severity, summary, detail) ==
    [severity |-> severity, summary |-> summary, detail |-> detail]

AddError(ds, summary, detail) == Append(ds, Diag("error", summary, detail))

HasError(ds) == \E i \in 1..Len(ds) : ds[i].severity = "error"

\* err.Error() of a failed call.
ErrText(step) == <<"error", step>>

ErrorSummaryCopyPaste(step) ==
    CASE step = "GenerateAndEncodeECDSAPrivateKey" -> "Unable to generate ECDSA key"
      [] step = "GenerateAndEncodeBLSSecretKey" -> "Unable to create generate BLS ket"
      [] step = "BLSSecretKeyToPubkeyBytes" -> "Unable to create generate BLS ket"
      [] step = "GenerateAndEncodeLibp2pKey" -> "Unable to generate network key"
      [] step = "IDFromPrivateKey" -> "Unable to get nodeID"

ErrorSummary(step) ==
    CASE step = "GenerateAndEncodeECDSAPrivateKey" -> "Unable to generate ECDSA key"
      [] step = "GenerateAndEncodeBLSSecretKey" -> "Unable to create generate BLS ket"
      [] step = "BLSSecretKeyToPubkeyBytes" -> "Unable to get BLS public key"
      [] step = "GenerateAndEncodeLibp2pKey" -> "Unable to generate network key"
      [] step = "IDFromPrivateKey" -> "Unable to get nodeID"

OnSuccessNetworkKeyEarly(step) ==
    CASE step = "GenerateAndEncodeECDSAPrivateKey" -> "GenerateAndEncodeBLSSecretKey"
      [] step = "GenerateAndEncodeBLSSecretKey" -> "GenerateAndEncodeLibp2pKey"
      [] step = "GenerateAndEncodeLibp2pKey" -> "BLSSecretKeyToPubkeyBytes"
      [] step = "BLSSecretKeyToPubkeyBytes" -> "IDFromPrivateKey"
      [] step = "IDFromPrivateKey" -> "StateSet"

\* Where Create goes when a call returned no error.
OnSuccess(step) ==
    CASE step = "GenerateAndEncodeECDSAPrivateKey" -> "GenerateAndEncodeBLSSecretKey"
      [] step = "GenerateAndEncodeBLSSecretKey" -> "BLSSecretKeyToPubkeyBytes"
      [] step = "BLSSecretKeyToPubkeyBytes" -> "GenerateAndEncodeLibp2pKey"
      [] step = "GenerateAndEncodeLibp2pKey" -> "IDFromPrivateKey"
      [] step = "IDFromPrivateKey" -> "StateSet"

\* Where Create goes when a call returned an error: the return statement.
OnError(step) == "return"

NoLocals ==
    [validatorKey |-> NilKey, validatorKeyEncoded |-> NullString,
     blsSecretKey |-> NilKey, blsSecretKeyEncoded |-> NullString,
     pubkeyBytes |-> NullString,
     libp2pKey |-> NilKey, libp2pKeyEncoded |-> NullString,
     nodeID |-> NullString]

----------------------------------------------------------------------------
(* Create: the record it writes *)

\* string(b) of a byte slice: the same bytes.
StringOfBytes(b) == b

secretsDataSourceModelNoNodeID(l) ==
    [validator_key_encoded |-> StringOfBytes(l.validatorKeyEncoded),
     address |-> AddressString(PubKeyToAddress(PublicKey(l.validatorKey))),
     validator_bls_key_encoded |-> StringOfBytes(l.blsSecretKeyEncoded),
     bls_pubkey |-> StringOfBytes(l.pubkeyBytes),
     network_key_encoded |-> StringOfBytes(l.libp2pKeyEncoded),
     node_id |-> NullString]

secretsDataSourceModelSwapped(l) ==
    [validator_key_encoded |-> StringOfBytes(l.validatorKeyEncoded),
     address |-> PeerIDString(l.nodeID),
     validator_bls_key_encoded |-> StringOfBytes(l.blsSecretKeyEncoded),
     bls_pubkey |-> StringOfBytes(l.pubkeyBytes),
     network_key_encoded |-> StringOfBytes(l.libp2pKeyEncoded),
     node_id |-> AddressString(PubKeyToAddress(PublicKey(l.validatorKey)))]

\* The struct literal handed to resp.State.Set, from Create's locals l.
secretsDataSourceModel(l) ==
    [validator_key_encoded |-> StringOfBytes(l.validatorKeyEncoded),
     address |-> AddressString(PubKeyToAddress(PublicKey(l.validatorKey))),
     validator_bls_key_encoded |-> StringOfBytes(l.blsSecretKeyEncoded),
     bls_pubkey |-> StringOfBytes(l.pubkeyBytes),
     network_key_encoded |-> StringOfBytes(l.libp2pKeyEncoded),
     node_id |-> PeerIDString(l.nodeID)]

\* resp.State.Set: replaces the whole state, or leaves it and returns errors.
StateSet(rs, model, fail) == IF fail THEN rs ELSE model
StateSetDiagsDropped(fail) == <<>>
StateSetDiags(fail) ==
    IF fail THEN <<Diag("error", "State.Set", ErrText("StateSet"))>> ELSE <<>>

----------------------------------------------------------------------------
(* Read, Update, Delete: what the handler leaves in its response *)

ReadStateRemoves(s) == NoRecord
\* Read does not touch response.State, which holds the prior state.
ReadState(s) == s

ReadDiagsError == <<Diag("error", "Unable to read secrets", <<"error", "Read">>)>>
\* Read adds no diagnostic.
ReadDiags == <<>>

UpdateStateAppliesPlan(s, p) == p
\* Update does not touch response.State, which holds the prior state.
UpdateState(s, p) == s

\* Update adds no diagnostic.
UpdateDiags == <<>>

DeleteDiagsError == <<Diag("error", "Unable to remove secrets", <<"error", "Delete">>)>>
\* Delete adds no diagnostic.
DeleteDiags == <<>>

\* After Delete returns, the state is removed unless an error was reported.
StateAfterDelete(s, ds) == IF HasError(ds) THEN s ELSE NoRecord

\* The records a plan can propose in an Update request.
RecordOf(k1, k2, k3) ==
    secretsDataSourceModel(
        [validatorKey |-> k1, validatorKeyEncoded |-> EncodeECDSA(k1),
         blsSecretKey |-> k2, blsSecretKeyEncoded |-> EncodeBLS(k2),
         pubkeyBytes |-> BLSSecretKeyToPubkeyBytes(k2),
         libp2pKey |-> k3, libp2pKeyEncoded |-> EncodeLibp2p(k3),
         nodeID |-> IDFromPrivateKey(k3)])
Plans == {RecordOf(k1, k2, k3) : k1 \in Keys, k2 \in Keys, k3 \in Keys}
            \cup {NoRecord}

----------------------------------------------------------------------------
(* The state machine *)

Init ==
    /\ state = NoRecord
    /\ schema = NoSchema
    /\ pc = "idle"
    /\ op = "none"
    /\ faults = {}
    /\ locals = NoLocals
    /\ respState = NoRecord
    /\ diags = <<>>
    /\ calls = <<>>
    /\ reads = 0
    /\ snap = NoRecord
    /\ plan = NoRecord
    /\ deleted = FALSE

\* Schema(req, resp): resp.Schema = schema.Schema{...}.
SchemaRequest ==
    /\ pc = "idle"
    /\ schema' = Schema
    /\ UNCHANGED <<state, pc, op, faults, locals, respState, diags, calls,
                   reads, snap, plan, deleted>>

\* The framework calls Create for a resource that has no state yet, with an
\* empty response; the environment fixes which external calls will fail.
CreateBegin ==
    /\ pc = "idle"
    /\ state = NoRecord
    /\ pc' = Order[1]
    /\ op' = "Create"
    /\ faults' \in SUBSET FallibleSteps
    /\ locals' = NoLocals
    /\ respState' = NoRecord
    /\ diags' = <<>>
    /\ calls' = <<>>
    /\ reads' = 0
    /\ deleted' = FALSE
    /\ snap' = NoRecord
    /\ plan' = NoRecord
    /\ UNCHANGED <<state, schema>>

\* One checked call of Create: on an error AddError and return, otherwise
\* keep the results in the locals and go on.
Checked(step, results) ==
    /\ pc = step
    /\ calls' = Append(calls, step)
    /\ IF step \in faults
         THEN /\ diags' = AddError(diags, ErrorSummary(step), ErrText(step))
              /\ pc' = OnError(step)
              /\ UNCHANGED locals
         ELSE /\ locals' \in results
              /\ pc' = OnSuccess(step)
              /\ UNCHANGED diags
    /\ UNCHANGED <<state, schema, op, faults, respState, reads, snap, plan,
                   deleted>>

CreateECDSA ==
    Checked("GenerateAndEncodeECDSAPrivateKey",
            {[locals EXCEPT !.validatorKey = k,
                            !.validatorKeyEncoded = EncodeECDSA(k)] : k \in Keys})

CreateBLS ==
    Checked("GenerateAndEncodeBLSSecretKey",
            {[locals EXCEPT !.blsSecretKey = k,
                            !.blsSecretKeyEncoded = EncodeBLS(k)] : k \in Keys})

CreateBLSPubkey ==
    Checked("BLSSecretKeyToPubkeyBytes",
            {[locals EXCEPT !.pubkeyBytes =
                                BLSSecretKeyToPubkeyBytes(locals.blsSecretKey)]})

CreateLibp2p ==
    Checked("GenerateAndEncodeLibp2pKey",
            {[locals EXCEPT !.libp2pKey = k,
                            !.libp2pKeyEncoded = EncodeLibp2p(k)] : k \in Keys})

CreateNodeID ==
    Checked("IDFromPrivateKey",
            {[locals EXCEPT !.nodeID = IDFromPrivateKey(locals.libp2pKey)]})

\* The struct literal is evaluated (deriving the address), State.Set is
\* called, its diagnostics are appended, and Create returns either way.
CreateSet ==
    /\ pc = "StateSet"
    /\ calls' = calls \o <<"PubKeyToAddress", "StateSet">>
    /\ respState' = StateSet(respState, secretsDataSourceModel(locals),
                             "StateSet" \in faults)
    /\ diags' = diags \o StateSetDiags("StateSet" \in faults)
    /\ pc' = "return"
    /\ UNCHANGED <<state, schema, op, faults, locals, reads, snap, plan,
                   deleted>>

\* Create has returned: the framework stores the response state.
CreateReturn ==
    /\ pc = "return"
    /\ state' = respState
    /\ pc' = "idle"
    /\ locals' = NoLocals
    /\ faults' = {}
    /\ UNCHANGED <<schema, op, respState, diags, calls, reads, snap, plan,
                   deleted>>

Read ==
    /\ pc = "idle"
    /\ reads < MaxReads
    /\ op' = "Read"
    /\ state' = ReadState(state)
    /\ diags' = ReadDiags
    /\ calls' = <<>>
    /\ reads' = reads + 1
    /\ snap' = IF reads = 0 THEN state ELSE snap
    /\ plan' = NoRecord
    /\ UNCHANGED <<schema, pc, faults, locals, respState, deleted>>

Update ==
    /\ pc = "idle"
    /\ state # NoRecord
    /\ op' = "Update"
    /\ plan' \in Plans
    /\ state' = UpdateState(state, plan')
    /\ diags' = UpdateDiags
    /\ calls' = <<>>
    /\ reads' = 0
    /\ snap' = NoRecord
    /\ UNCHANGED <<schema, pc, faults, locals, respState, deleted>>

Delete ==
    /\ pc = "idle"
    /\ state # NoRecord
    /\ op' = "Delete"
    /\ diags' = DeleteDiags
    /\ state' = StateAfterDelete(state, DeleteDiags)
    /\ calls' = <<>>
    /\ reads' = 0
    /\ deleted' = TRUE
    /\ snap' = NoRecord
    /\ plan' = NoRecord
    /\ UNCHANGED <<schema, pc, faults, locals, respState>>

Next ==
    \/ SchemaRequest
    \/ CreateBegin
    \/ CreateECDSA
    \/ CreateBLS
    \/ CreateBLSPubkey
    \/ CreateLibp2p
    \/ CreateNodeID
    \/ CreateSet
    \/ CreateReturn
    \/ Read
    \/ Update
    \/ Delete

Spec == Init /\ [][Next]_vars

----------------------------------------------------------------------------
(* Properties *)

\* The handler last invoked has returned and the framework has stored its state.
Returned(o) == op = o /\ pc = "idle"

\* The first call, in the order of the specification, that is set to fail.
SpecOrder == <<"GenerateAndEncodeECDSAPrivateKey",
               "GenerateAndEncodeBLSSecretKey",
               "BLSSecretKeyToPubkeyBytes",
               "GenerateAndEncodeLibp2pKey",
               "IDFromPrivateKey",
               "PubKeyToAddress",
               "StateSet">>
FailingGenSteps == {i \in 1..5 : SpecOrder[i] \in faults}
FirstFailing ==
    SpecOrder[CHOOSE i \in FailingGenSteps : \A j \in FailingGenSteps : i <= j]

\* C1: the stored record and the response state of Create always have all
\* six attributes set or none of them, and once Create has reported an error
\* neither holds any attribute.
C1_AllOrNothing ==
    /\ AllSet(state) \/ NoneSet(state)
    /\ AllSet(respState) \/ NoneSet(respState)
    /\ (op = "Create" /\ HasError(diags)) => NoneSet(state) /\ NoneSet(respState)

\* A Create that failed after three keys had been generated left no record.
C1_Witness ==
    /\ Returned("Create")
    /\ HasError(diags)
    /\ Len(calls) >= 4
    /\ NoneSet(state)

\* C2: when Create returns and at least one of the five generation or
\* derivation calls was set to fail, the diagnostics hold exactly one error,
\* whose summary is that of the first such call and of no other call.
C2_FirstFailureReported ==
    (pc = "return" /\ FailingGenSteps # {}) =>
        /\ Len(diags) = 1
        /\ diags[1].severity = "error"
        /\ diags[1].summary = ErrorSummary(FirstFailing)
        /\ diags[1].detail = ErrText(FirstFailing)
        /\ \A s \in GenSteps \ {FirstFailing} : diags[1].summary # ErrorSummary(s)

\* Create returned with two or more calls set to fail, the first of them
\* not the first call of Create.
C2_Witness ==
    /\ pc = "return"
    /\ Cardinality(FailingGenSteps) >= 2
    /\ FirstFailing = "BLSSecretKeyToPubkeyBytes"
    /\ Len(diags) = 1

\* C3: after a run of one or more consecutive Reads the stored record is the
\* record from before the first of them, and Read has made no external call.
C3_ReadNoOp ==
    Returned("Read") => state = snap /\ calls = <<>> /\ locals = NoLocals

\* A second consecutive Read of an existing record.
C3_Witness ==
    /\ Returned("Read")
    /\ reads >= 2
    /\ AllSet(state)

\* C4: an Update step leaves the stored record as it was, whatever the plan.
C4_UpdateNoOp == [][Update => state' = state]_vars

\* An Update whose plan differs from the stored record has returned.
C4_Witness ==
    /\ Returned("Update")
    /\ AllSet(state)
    /\ AllSet(plan)
    /\ plan # state

\* C5: from a Delete until the next Create there is no stored record, through
\* every Read in between, and neither Delete nor those Reads make an external
\* call or report a diagnostic.
C5_DeleteRemoves ==
    deleted => state = NoRecord /\ calls = <<>> /\ diags = <<>>

\* A record was created and deleted, and has been read twice since.
C5_Witness ==
    /\ deleted
    /\ Returned("Read")
    /\ reads >= 2
    /\ state = NoRecord

\* C6: when Create returns without error the state it wrote holds, for each
\* of its three keys, the encoding of that key and the identifier derived
\* from that same key; every stored record has all six attributes set and is
\* of that form.
C6_Consistent ==
    /\ (pc = "return" /\ ~HasError(diags)) =>
          /\ locals.validatorKey \in Keys
          /\ locals.blsSecretKey \in Keys
          /\ locals.libp2pKey \in Keys
          /\ respState.validator_key_encoded = EncodeECDSA(locals.validatorKey)
          /\ respState.address =
                AddressString(PubKeyToAddress(PublicKey(locals.validatorKey)))
          /\ respState.validator_bls_key_encoded = EncodeBLS(locals.blsSecretKey)
          /\ respState.bls_pubkey = BLSSecretKeyToPubkeyBytes(locals.blsSecretKey)
          /\ respState.network_key_encoded = EncodeLibp2p(locals.libp2pKey)
          /\ respState.node_id = PeerIDString(IDFromPrivateKey(locals.libp2pKey))
    /\ state # NoRecord =>
          /\ AllSet(state)
          /\ \E k1 \in Keys, k2 \in Keys, k3 \in Keys :
                /\ state.validator_key_encoded = EncodeECDSA(k1)
                /\ state.address = AddressString(PubKeyToAddress(PublicKey(k1)))
                /\ state.validator_bls_key_encoded = EncodeBLS(k2)
                /\ state.bls_pubkey = BLSSecretKeyToPubkeyBytes(k2)
                /\ state.network_key_encoded = EncodeLibp2p(k3)
                /\ state.node_id = PeerIDString(IDFromPrivateKey(k3))

\* A successful Create whose signing, BLS and network keys are not all the
\* same key.
C6_Witness ==
    /\ Returned("Create")
    /\ ~HasError(diags)
    /\ state.validator_key_encoded = EncodeECDSA(1)
    /\ state.validator_bls_key_encoded = EncodeBLS(2)
    /\ state.network_key_encoded = EncodeLibp2p(2)
    /\ state.node_id = PeerIDString(IDFromPrivateKey(2))

SchemaShape(s) ==
    /\ Cardinality(s.attributes) = 6
    /\ {a.name : a \in s.attributes} = Attrs
    /\ \A a \in s.attributes :
          a.type = "string" /\ a.computed /\ ~a.optional /\ ~a.required
SensitiveNames(s) == {a.name : a \in {b \in s.attributes : b.sensitive}}

\* C7 as stated: six computed string attributes, exactly two sensitive.
C7_Original ==
    schema # NoSchema =>
        SchemaShape(schema) /\ Cardinality(SensitiveNames(schema)) = 2

\* C7: the schema declares exactly six string attributes, all computed and
\* none settable, and exactly three of them are sensitive: the three encoded
\* keys.
C7_SchemaShape ==
    schema # NoSchema =>
        /\ SchemaShape(schema)
        /\ SensitiveNames(schema) = {"validator_key_encoded",
                                     "validator_bls_key_encoded",
                                     "network_key_encoded"}

\* Schema has been called.
C7_Witness == schema # NoSchema /\ schema.attributes # {}

\* C8 as stated: every error diagnostic of a returning Create carries the
\* summary of one of the five generation or derivation calls.
C8_Original ==
    pc = "return" =>
        \A i \in 1..Len(diags) :
            diags[i].severity = "error" =>
                \E s \in GenSteps : diags[i].summary = ErrorSummary(s)

\* C8: a returning Create reports an error exactly when some call was set to
\* fail; the diagnostics are then either the single error of the first
\* failing generation or derivation call, or, when none of those five failed,
\* the diagnostics State.Set returned.
C8_FailureClasses ==
    pc = "return" =>
        /\ HasError(diags) <=> faults # {}
        /\ HasError(diags) =>
              \/ /\ FailingGenSteps # {}
                 /\ diags = <<Diag("error", ErrorSummary(FirstFailing),
                                   ErrText(FirstFailing))>>
              \/ /\ FailingGenSteps = {}
                 /\ "StateSet" \in faults
                 /\ diags = StateSetDiags(TRUE)

\* Create returned with the error of State.Set, all five checked calls
\* having succeeded.
C8_Witness ==
    /\ pc = "return"
    /\ FailingGenSteps = {}
    /\ HasError(diags)
    /\ Len(calls) = 7

\* C9: Read, Update and Delete return with no diagnostic at all.
C9_NoErrors ==
    (op \in {"Read", "Update", "Delete"}) => diags = <<>>

\* A Read of an instance that has no record returned without error.
C9_Witness ==
    /\ Returned("Read")
    /\ deleted
    /\ ~HasError(diags)

IsPrefix(s, t) == Len(s) <= Len(t) /\ \A i \in 1..Len(s) : s[i] = t[i]

\* C10: the calls of a Create are a prefix of the fixed order (so each is
\* made at most once and in that order), a call is made only if no earlier
\* call was set to fail, Create returns only after the state write or after a
\* failed call, and the response state is written only by a full run.
C10_StepOrder ==
    op = "Create" =>
        /\ IsPrefix(calls, SpecOrder)
        /\ \A i \in 1..Len(calls) :
              \A j \in 1..(i - 1) : SpecOrder[j] \notin faults
        /\ pc = "return" =>
              \/ calls = SpecOrder
              \/ Len(calls) >= 1 /\ calls[Len(calls)] \in faults
        /\ respState # NoRecord =>
              calls = SpecOrder /\ faults = {}
        /\ pc = "idle" => state = respState

\* A Create in which every call ran and the state was written.
C10_Witness ==
    /\ pc = "return"
    /\ calls = SpecOrder
    /\ AllSet(respState)

====
